---- MODULE Spec2Model ----
(***************************************************************************)
(* SalesBoostAI: the in-memory entity store (server/storage.ts,            *)
(* MemStorage), the webhook dispatcher (services/webhook.ts,               *)
(* WebhookService) and the chat routes (server/routes.ts).                 *)
(*                                                                         *)
(* JavaScript objects are functions from field names to values; a field    *)
(* that is absent from an object is absent from the function's domain, and *)
(* reading it yields Undefined.  A Map<number, X> is a function from the   *)
(* keys it holds to records; a Map enumerates in insertion order, which    *)
(* for these maps is ascending key order (keys come from one increasing    *)
(* counter and set() on a held key keeps its position).                    *)
(***************************************************************************)
EXTENDS Integers, Sequences, FiniteSets, TLC

(* ----------------------------- bounds ---------------------------------- *)
MaxId == 3
MaxProducts == 2
MaxClock == 1
MaxList == 2
MaxWebhooks == 2
MaxDispatch == 1
MaxRequests == 2
MaxBatch == 2

(* --------------------------- value domains ----------------------------- *)
Undefined == "undefined"
Sids == {"a", "b"}
Titles == {"t1", "t2"}

VARIABLES
    users, conversations, messages, products, orders, recommendations,
    webhooks,      \* the seven Maps of MemStorage
    currentId,     \* MemStorage.currentId
    now,           \* the wall clock read by new Date()
    issued,        \* history: the ids nextId() has returned, in order
    call,          \* history: the last store call that wrote, <<name, arguments>>
    ret,           \* history: what that call returned
    disp,          \* the calls of the webhook dispatcher: where each stands
    att,           \* per dispatcher call, the delivery attempt of each target
    reqs,          \* the requests and calls in flight: where the handler of each stands
    microtasks,    \* the handlers whose awaited promise has settled, in order
    sent           \* history: the last response of an order or subscription route

storeVars ==
    <<users, conversations, messages, products, orders, recommendations,
      webhooks, currentId, now, issued, call, ret>>

dispVars == <<disp, att>>

chatVars == <<reqs, microtasks, sent>>

vars == <<storeVars, dispVars, chatVars>>

(* ------------------------ JavaScript objects --------------------------- *)
Empty == <<>>

Get(o, k) == IF k \in DOMAIN o THEN o[k] ELSE Undefined

\* { ...a, ...b }: the fields of b win over those of a
Spread(a, b) == b @@ a

Opt(k, S) == {Empty} \cup {k :> v : v \in S}

Min(S) == CHOOSE x \in S : \A y \in S : x <= y

Max(S) == CHOOSE x \in S : \A y \in S : x >= y

\* Array.from(map.values()).find(pred): the first match in key order
FindKey(map, Pred(_)) ==
    LET hits == {k \in DOMAIN map : Pred(map[k])}
    IN  IF hits = {} THEN 0 ELSE Min(hits)

\* a request slot before its request has come
NoRequest ==
    [pc |-> "none", route |-> "", sessionId |-> "", conversation |-> <<>>,
     hooks |-> <<>>, ai |-> <<>>, status |-> 0,
     request |-> <<>>, order |-> <<>>, fanout |-> 0, triggered |-> <<>>]

(* --------------------------- MemStorage -------------------------------- *)
InitStore ==
    /\ users = Empty
    /\ conversations = Empty
    /\ messages = Empty
    /\ products = Empty
    /\ orders = Empty
    /\ recommendations = Empty
    /\ webhooks = Empty
    /\ currentId = 1
    /\ now = 0
    /\ issued = <<>>
    /\ call = <<"new">>
    /\ ret = <<>>
    /\ disp = [d \in 1 .. MaxDispatch |-> [pc |-> "idle"]]
    /\ att = [d \in 1 .. MaxDispatch |-> <<>>]
    /\ reqs = [r \in 1 .. MaxRequests |-> NoRequest]
    /\ microtasks = <<>>
    /\ sent = <<>>

\* nextId(): return this.currentId++  -- the value returned, the counter after
NextIdStuck(cur) == [id |-> cur, counter |-> cur]

nextId(cur) == [id |-> cur, counter |-> cur + 1]

\* time passes
Tick ==
    /\ now < MaxClock
    /\ now' = now + 1
    /\ UNCHANGED <<users, conversations, messages, products, orders,
                   recommendations, webhooks, currentId, issued, call, ret>>
    /\ UNCHANGED <<dispVars, chatVars>>

(* products *)
ProductDrafts == {s @@ ("title" :> t) : s \in Opt("shopifyId", Sids), t \in Titles}

ProductPatches ==
    {i @@ s @@ t : i \in Opt("id", 1 .. MaxProducts), s \in Opt("shopifyId", Sids),
                   t \in Opt("title", Titles)}

\* getProductByShopifyId: the key of the first product whose shopifyId === sid, or 0
getProductByShopifyId(prods, sid) ==
    FindKey(prods, LAMBDA p : Get(p, "shopifyId") = sid)

\* A call on the store state st = [products, currentId, issued] yields the state
\* after it and out, what it returns: an array, or a value of type T | undefined
\* as the sequence of no or one record.
createProduct(st, draft, t) ==
    LET n == nextId(st.currentId)
        product == Spread(draft, [id |-> n.id, syncedAt |-> t])
    IN  [products |-> (n.id :> product) @@ st.products,
         currentId |-> n.counter,
         issued |-> Append(st.issued, n.id),
         out |-> <<product>>]

\* updateProduct: returns undefined when the key is not held
updateProduct(st, id, updates, t) ==
    IF id \notin DOMAIN st.products
    THEN [products |-> st.products, currentId |-> st.currentId,
          issued |-> st.issued, out |-> <<>>]
    ELSE LET updated == Spread(Spread(st.products[id], updates), [syncedAt |-> t])
         IN  [products |-> (id :> updated) @@ st.products,
              currentId |-> st.currentId, issued |-> st.issued, out |-> <<updated>>]

\* syncProducts: one pass over the drafts, in order; acc = [products, currentId,
\* issued, out], out being the array the call returns
RECURSIVE syncLoop(_, _, _)
syncLoop(acc, drafts, t) ==
    IF drafts = <<>> THEN acc
    ELSE LET draft == Head(drafts)
             existing == getProductByShopifyId(acc.products, Get(draft, "shopifyId"))
             step ==
                 IF existing # 0
                 THEN LET u == updateProduct(acc, Get(acc.products[existing], "id"),
                                             draft, t)
                      IN  [u EXCEPT !.out = acc.out \o u.out]
                 ELSE LET c == createProduct(acc, draft, t)
                      IN  [c EXCEPT !.out = acc.out \o c.out]
         IN  syncLoop(step, Tail(drafts), t)

syncProducts(st, drafts, t) == syncLoop([st EXCEPT !.out = <<>>], drafts, t)

ProductStore ==
    [products |-> products, currentId |-> currentId, issued |-> issued,
     out |-> <<>>]

DraftLists == UNION {[1 .. n -> ProductDrafts] : n \in 0 .. MaxList}

StoreProductResult(r, c) ==
    /\ products' = r.products
    /\ currentId' = r.currentId
    /\ issued' = r.issued
    /\ ret' = r.out
    /\ call' = c
    /\ UNCHANGED <<users, conversations, messages, orders, recommendations,
                   webhooks, now>>
    /\ UNCHANGED <<dispVars, chatVars>>

CreateProduct(draft) ==
    /\ currentId <= MaxProducts
    /\ StoreProductResult(createProduct(ProductStore, draft, now),
                          <<"createProduct", draft>>)

UpdateProduct(id, updates) ==
    StoreProductResult(updateProduct(ProductStore, id, updates, now),
                       <<"updateProduct", id>>)

SyncProducts(drafts) ==
    LET r == syncProducts(ProductStore, drafts, now)
    IN  /\ r.currentId <= MaxProducts + 1
        /\ StoreProductResult(r, <<"syncProducts", drafts>>)

NextProducts ==
    \/ Tick
    \/ \E draft \in ProductDrafts : CreateProduct(draft)
    \/ \E id \in 1 .. MaxProducts, updates \in ProductPatches :
           UpdateProduct(id, updates)
    \/ \E drafts \in DraftLists : SyncProducts(drafts)

SpecProducts == InitStore /\ [][NextProducts]_vars

(* ------------------- the createX operations, all kinds ---------------- *)
\* createX: id = this.nextId(); record = { ...draft, id, <stamps> }; map.set(id, record)
createX(draft, cur, stamps) ==
    LET n == nextId(cur)
    IN  [record |-> Spread(draft, Spread([id |-> n.id], stamps)), counter |-> n.counter]

EventNames ==
    {"conversation.started", "conversation.completed", "conversation.escalated",
     "order.created", "upsell.success", "webhook.test"}

Sessions == {"s1", "s2"}

Secrets == {"k1", "k2"}

UserDrafts == {[username |-> "u", password |-> "p"]}

ConversationDrafts == {[sessionId |-> s, status |-> "active"] : s \in Sessions}

MessageDrafts == {[conversationId |-> 1, role |-> "user", content |-> "hello"]}

OrderDrafts == {[status |-> "completed", totalAmount |-> 10]}

RecommendationDrafts ==
    {[conversationId |-> 1, productId |-> 1, type |-> "primary"]}

\* the jsonb column events: an array of event names, or another JSON value (here
\* the string "order.created", which has an includes() of its own)
EventsValues ==
    {[isArray |-> TRUE, items |-> {"order.created"}],
     [isArray |-> TRUE, items |-> {"conversation.started"}],
     [isArray |-> FALSE, items |-> {"order.created"}]}

WebhookDrafts ==
    {[url |-> "http://t", events |-> e, secret |-> k, isActive |-> TRUE] :
        e \in EventsValues, k \in Secrets}

Created(c, name) ==
    /\ currentId' = c.counter
    /\ issued' = Append(issued, c.record.id)
    /\ ret' = <<c.record>>
    /\ call' = <<name>>
    /\ UNCHANGED now
    /\ UNCHANGED <<dispVars, chatVars>>

CreateUser(draft) ==
    LET c == createX(draft, currentId, [role |-> "admin", createdAt |-> now])
    IN  /\ currentId <= MaxId
        /\ users' = (c.record.id :> c.record) @@ users
        /\ Created(c, "createUser")
        /\ UNCHANGED <<conversations, messages, products, orders, recommendations,
                       webhooks>>

CreateConversation(draft) ==
    LET c == createX(draft, currentId, [createdAt |-> now, updatedAt |-> now])
    IN  /\ currentId <= MaxId
        /\ conversations' = (c.record.id :> c.record) @@ conversations
        /\ Created(c, "createConversation")
        /\ UNCHANGED <<users, messages, products, orders, recommendations, webhooks>>

CreateMessage(draft) ==
    LET c == createX(draft, currentId, [timestamp |-> now])
    IN  /\ currentId <= MaxId
        /\ messages' = (c.record.id :> c.record) @@ messages
        /\ Created(c, "createMessage")
        /\ UNCHANGED <<users, conversations, products, orders, recommendations,
                       webhooks>>

CreateOrder(draft) ==
    LET c == createX(draft, currentId, [createdAt |-> now, updatedAt |-> now])
    IN  /\ currentId <= MaxId
        /\ orders' = (c.record.id :> c.record) @@ orders
        /\ Created(c, "createOrder")
        /\ UNCHANGED <<users, conversations, messages, products, recommendations,
                       webhooks>>

CreateRecommendation(draft) ==
    LET c == createX(draft, currentId, [createdAt |-> now])
    IN  /\ currentId <= MaxId
        /\ recommendations' = (c.record.id :> c.record) @@ recommendations
        /\ Created(c, "createRecommendation")
        /\ UNCHANGED <<users, conversations, messages, products, orders, webhooks>>

CreateWebhook(draft) ==
    LET c == createX(draft, currentId, [createdAt |-> now])
    IN  /\ currentId <= MaxId
        /\ webhooks' = (c.record.id :> c.record) @@ webhooks
        /\ Created(c, "createWebhook")
        /\ UNCHANGED <<users, conversations, messages, products, orders,
                       recommendations>>

\* the store's createProduct, as one of the createX operations
CreateAnyProduct(draft) ==
    /\ currentId <= MaxId
    /\ StoreProductResult(createProduct(ProductStore, draft, now), <<"createProduct">>)

\* deleteWebhook: this.webhooks.delete(id), true iff the key was held
DeleteNothing(map, id) == map

deleteWebhook(map, id) == [k \in DOMAIN map \ {id} |-> map[k]]

DeleteWebhook(id) ==
    /\ webhooks' = deleteWebhook(webhooks, id)
    /\ ret' = <<id \in DOMAIN webhooks>>
    /\ call' = <<"deleteWebhook", id>>
    /\ UNCHANGED <<users, conversations, messages, products, orders,
                   recommendations, currentId, now, issued>>
    /\ UNCHANGED <<dispVars, chatVars>>

NextIds ==
    \/ Tick
    \/ \E d \in UserDrafts : CreateUser(d)
    \/ \E d \in {[sessionId |-> "s1", status |-> "active"]} : CreateConversation(d)
    \/ \E d \in MessageDrafts : CreateMessage(d)
    \/ \E d \in {[shopifyId |-> "a", title |-> "t1"]} : CreateAnyProduct(d)
    \/ \E d \in OrderDrafts : CreateOrder(d)
    \/ \E d \in RecommendationDrafts : CreateRecommendation(d)
    \/ \E d \in {[url |-> "http://t", secret |-> "k1", isActive |-> TRUE,
                    events |-> [isArray |-> TRUE, items |-> {"order.created"}]]} :
           CreateWebhook(d)
    \/ \E id \in 1 .. MaxId : DeleteWebhook(id)

SpecIds == InitStore /\ [][NextIds]_vars

(* ------------------------- webhooks in the store ----------------------- *)
RECURSIVE Ascending(_)
Ascending(S) == IF S = {} THEN <<>> ELSE <<Min(S)>> \o Ascending(S \ {Min(S)})

\* Array.from(map.values())
Values(map) == [i \in 1 .. Cardinality(DOMAIN map) |-> map[Ascending(DOMAIN map)[i]]]

getAllWebhooks == Values(webhooks)

getActiveWebhooks == SelectSeq(Values(webhooks), LAMBDA w : Get(w, "isActive") = TRUE)

WebhookPatches == {[isActive |-> b] : b \in BOOLEAN}

UpsertWebhook(map, id, updates) ==
    (id :> Spread(IF id \in DOMAIN map THEN map[id] ELSE Empty, updates)) @@ map

\* updateWebhook: { ...webhook, ...updates }, undefined when the key is not held
updateWebhook(map, id, updates) ==
    IF id \in DOMAIN map THEN (id :> Spread(map[id], updates)) @@ map ELSE map

UpdateWebhook(id, updates) ==
    /\ webhooks' = updateWebhook(webhooks, id, updates)
    /\ ret' = IF id \in DOMAIN webhooks THEN <<Spread(webhooks[id], updates)>> ELSE <<>>
    /\ call' = <<"updateWebhook", id>>
    /\ UNCHANGED <<users, conversations, messages, products, orders,
                   recommendations, currentId, now, issued>>
    /\ UNCHANGED <<dispVars, chatVars>>

(* --------------------------- WebhookService ---------------------------- *)
\* what the target's HTTP exchange comes to: axios.post resolves with a
\* response, or rejects (timeout after 30 s, transport error, refused status)
Statuses == {200, 299, 300}

Answers ==
    {[kind |-> "response", status |-> st] : st \in Statuses}
        \cup {[kind |-> k, status |-> 0] : k \in {"timeout", "error"}}

\* JSON.stringify(payload)
stringify(payload) == <<"json", payload>>

\* generateSignature: the hex HMAC-SHA256 of the payload under the secret, a
\* tag that names the key and the payload (collisions aside)
\* createHmac pads a key shorter than the 64-byte block of SHA-256 with zero
\* bytes (RFC 2104): a secret and the same secret followed by a zero byte,
\* written "k1+00" here, are one key
hmacKey(secret) == IF secret = "k1+00" THEN "k1" ELSE secret

SignatureIgnoringSecret(payloadString, secret) ==
    <<"hmac-sha256", "k1", payloadString>>

generateSignature(payloadString, secret) ==
    <<"hmac-sha256", hmacKey(secret), payloadString>>

\* triggerWebhook up to axios.post: the request sent to webhook.url
request(webhook, payload) ==
    [url |-> webhook.url,
     body |-> stringify(payload),
     signature |-> generateSignature(stringify(payload), webhook.secret),
     event |-> payload.event]

\* triggerWebhook from the answer on: how its promise settles, and with what
TriggerWebhookRethrows(answer) ==
    IF answer.kind = "response" /\ answer.status >= 200 /\ answer.status < 300
    THEN [promise |-> "fulfilled", value |-> TRUE]
    ELSE [promise |-> "rejected", value |-> FALSE]

TriggerWebhookNoCatch(answer) ==
    IF answer.kind = "response"
    THEN [promise |-> "fulfilled",
          value |-> answer.status >= 200 /\ answer.status < 300]
    ELSE [promise |-> "rejected", value |-> FALSE]

triggerWebhook(answer) ==
    IF answer.kind = "response"
    THEN [promise |-> "fulfilled",
          value |-> answer.status >= 200 /\ answer.status < 300]
    ELSE [promise |-> "fulfilled", value |-> FALSE]

\* webhooks.filter(w => w.isActive && Array.isArray(w.events) && w.events.includes(E))
RelevantIgnoringActive(list, event) ==
    SelectSeq(list, LAMBDA w : w.events.isArray /\ event \in w.events.items)

relevantWebhooks(list, event) ==
    SelectSeq(list, LAMBDA w : /\ Get(w, "isActive") = TRUE
                               /\ w.events.isArray
                               /\ event \in w.events.items)

\* relevantWebhooks.map(webhook => this.triggerWebhook(webhook, payload)): the
\* targets whose request is out when map returns
issuedByMap(targets) == DOMAIN targets

\* Promise.all over the attempts' promises
PromiseAny(promises) ==
    IF \E i \in DOMAIN promises : promises[i] = "rejected" THEN "rejected"
    ELSE IF promises = <<>> \/ \E i \in DOMAIN promises : promises[i] = "fulfilled"
         THEN "fulfilled" ELSE "pending"

promiseAll(promises) ==
    IF \E i \in DOMAIN promises : promises[i] = "rejected" THEN "rejected"
    ELSE IF \A i \in DOMAIN promises : promises[i] = "fulfilled"
         THEN "fulfilled" ELSE "pending"

\* the attempt of one target: NONE before its request is out
attempt(webhook, payload, out) ==
    [webhook |-> webhook,
     status |-> IF out THEN "PENDING" ELSE "NONE",
     requests |-> IF out THEN <<request(webhook, payload)>> ELSE <<>>,
     answers |-> <<>>,
     promise |-> "pending"]

\* one attempt when its exchange ends
SettleWithRetry(a, answer) ==
    LET r == triggerWebhook(answer)
    IN  IF r.value
        THEN [a EXCEPT !.status = "DELIVERED", !.answers = Append(@, answer),
                       !.promise = r.promise]
        ELSE IF Len(a.requests) < 2
             THEN [a EXCEPT !.requests = Append(@, a.requests[1]),
                            !.answers = Append(@, answer)]
             ELSE [a EXCEPT !.status = "FAILED", !.answers = Append(@, answer),
                            !.promise = r.promise]

settleAttempt(a, answer) ==
    LET r == triggerWebhook(answer)
    IN  [a EXCEPT !.status = IF r.promise = "fulfilled" /\ r.value
                             THEN "DELIVERED" ELSE "FAILED",
                  !.answers = Append(@, answer),
                  !.promise = r.promise]

\* the attempts of one fan-out when the exchange of target i ends
SettleAbortingSiblings(atts, i, answer) ==
    LET mine == settleAttempt(atts[i], answer)
    IN  [j \in DOMAIN atts |->
            IF j = i THEN mine
            ELSE IF mine.status = "FAILED" /\ atts[j].status = "PENDING"
                 THEN [atts[j] EXCEPT !.status = "FAILED", !.promise = "fulfilled"]
                 ELSE atts[j]]

settle(atts, i, answer) == [atts EXCEPT ![i] = settleAttempt(@, answer)]

\* where the caller of the fan-out stands, given its Promise.all
awaited(promise) ==
    CASE promise = "fulfilled" -> "complete"
      [] promise = "rejected" -> "threw"
      [] OTHER -> "waiting"

TriggerEvents ==
    {"conversation.started", "conversation.completed", "order.created",
     "upsell.success", "conversation.escalated"}

\* the conversation or order an event is about
Entities == {[id |-> 1]}

FanOut(d, kind, payload, list, targets) ==
    LET atts == [i \in DOMAIN targets |->
                    attempt(targets[i], payload, i \in issuedByMap(targets))]
    IN  /\ disp[d].pc = "idle"
        /\ att' = [att EXCEPT ![d] = atts]
        /\ disp' = [disp EXCEPT ![d] =
                [pc |-> awaited(promiseAll([i \in DOMAIN atts |-> atts[i].promise])),
                 kind |-> kind, event |-> payload.event, payload |-> payload,
                 list |-> list]]
        /\ UNCHANGED <<storeVars, chatVars>>

\* triggerConversationStarted, ...Completed, triggerOrderCreated,
\* triggerUpsellSuccess, triggerConversationEscalated (entity, webhooks)
Trigger(d, event, entity, list) ==
    LET payload == [event |-> event, timestamp |-> now, data |-> entity]
    IN  FanOut(d, "trigger", payload, list, relevantWebhooks(list, event))

\* testWebhook(webhook): one delivery of webhook.test, whatever the subscription
TestWebhook(d, id) ==
    LET payload == [event |-> "webhook.test", timestamp |-> now,
                    data |-> [webhookId |-> webhooks[id].id]]
    IN  FanOut(d, "test", payload, <<webhooks[id]>>, <<webhooks[id]>>)

\* the exchange with target i of fan-out d ends
Settle(d, i, answer) ==
    /\ i \in DOMAIN att[d]
    /\ att[d][i].status = "PENDING"
    /\ LET atts == settle(att[d], i, answer)
       IN  /\ att' = [att EXCEPT ![d] = atts]
           /\ disp' = [disp EXCEPT ![d].pc =
                  IF @ = "waiting"
                  THEN awaited(promiseAll([j \in DOMAIN atts |-> atts[j].promise]))
                  ELSE @]
    /\ UNCHANGED <<storeVars, chatVars>>

RegisterWebhook(draft) == currentId <= MaxWebhooks /\ CreateWebhook(draft)

NextDispatch ==
    \/ \E draft \in WebhookDrafts : RegisterWebhook(draft)
    \/ \E id \in 1 .. MaxWebhooks, updates \in WebhookPatches : UpdateWebhook(id, updates)
    \/ \E id \in 1 .. MaxWebhooks : DeleteWebhook(id)
    \/ \E d \in 1 .. MaxDispatch, event \in TriggerEvents, entity \in Entities,
          list \in {getAllWebhooks, getActiveWebhooks} :
           Trigger(d, event, entity, list)
    \/ \E d \in 1 .. MaxDispatch, id \in DOMAIN webhooks : TestWebhook(d, id)
    \/ \E d \in 1 .. MaxDispatch, i \in 1 .. MaxWebhooks, answer \in Answers :
           Settle(d, i, answer)

SpecDispatch == InitStore /\ [][NextDispatch]_vars

(* ------------------------------ chat routes ---------------------------- *)
(* A handler runs from one await to the next without interruption.  An     *)
(* await on a store call, whose promise is already settled, puts the rest  *)
(* of the handler at the tail of the microtask queue; an await on an HTTP   *)
(* exchange (deliveries, OpenAI) parks it until the exchange ends.  The     *)
(* handlers of the requests that one read of a connection completes         *)
(* (pipelined requests) all start before the microtask queue is drained;   *)
(* new input and ended exchanges are taken when the queue is empty.        *)

\* getConversationBySessionId: the first conversation whose sessionId === sid
getConversationBySessionId(convs, sid) ==
    LET k == FindKey(convs, LAMBDA c : Get(c, "sessionId") = sid)
    IN  IF k = 0 THEN <<>> ELSE <<convs[k]>>

UpdateKeepingStatus(convs, id, updates, t) ==
    IF id \notin DOMAIN convs THEN convs
    ELSE (id :> Spread(convs[id], [updatedAt |-> t])) @@ convs

\* updateConversation: { ...conversation, ...updates, updatedAt }
updateConversation(convs, id, updates, t) ==
    IF id \notin DOMAIN convs THEN convs
    ELSE (id :> Spread(Spread(convs[id], updates), [updatedAt |-> t])) @@ convs

\* POST /api/conversations/message: the bodies, and messageSchema.parse on them
ChatBodies == {m @@ s : m \in Opt("message", {"hi"}), s \in Opt("sessionId", Sessions)}

messageSchema(body) == "message" \in DOMAIN body /\ "sessionId" \in DOMAIN body

MessageRequests == {[route |-> "message", body |-> b] : b \in ChatBodies}

\* POST /api/webhook/chat: bodies and the two headers; a signature is an HMAC
\* under some secret or another text, <<"text", its length>>
WebhookBodies == {m @@ s : m \in Opt("message", {"hi"}), s \in Opt("session_id", Sessions)}

SignaturesFor(body) ==
    {generateSignature(stringify(body), k) : k \in Secrets} \cup {<<"text", 5>>}

WebhookChatRequests ==
    UNION {{[route |-> "webhook", body |-> b, headers |-> sg @@ sc] :
                sg \in Opt("x-webhook-signature", SignaturesFor(b)),
                sc \in Opt("x-webhook-secret", {"k1"})} : b \in WebhookBodies}

ChatRequests == MessageRequests \cup WebhookChatRequests

\* Buffer.from(signature).length: a hex SHA-256 digest has 64 characters
byteLength(signature) == IF signature[1] = "hmac-sha256" THEN 64 ELSE signature[2]

\* verifySignature: crypto.timingSafeEqual throws when the lengths differ
verifySignature(payload, signature, secret) ==
    LET expected == generateSignature(payload, secret)
    IN  IF byteLength(signature) # byteLength(expected)
        THEN [threw |-> TRUE, value |-> FALSE]
        ELSE [threw |-> FALSE, value |-> signature = expected]

verifyIncomingWebhook(payload, signature, secret) ==
    verifySignature(payload, signature, secret)

\* what openaiService.processMessage comes to
AiAnswers ==
    {[kind |-> "ok", shouldEscalate |-> e, recommendations |-> n] :
        e \in BOOLEAN, n \in 0 .. 1}
        \cup {[kind |-> "error", shouldEscalate |-> FALSE, recommendations |-> 0]}

responded(route, status) == [NoRequest EXCEPT !.pc = "done", !.route = route, !.status = status]

looking(route, sid) ==
    [NoRequest EXCEPT !.pc = "lookup", !.route = route, !.sessionId = sid,
                      !.conversation = getConversationBySessionId(conversations, sid)]

\* the handlers up to their first await
startMessage(req) ==
    IF ~messageSchema(req.body) THEN responded("message", 500)
    ELSE looking("message", req.body.sessionId)

startWebhookChat(req) ==
    LET h == req.headers
        b == req.body
    IN  IF ~("x-webhook-signature" \in DOMAIN h /\ "x-webhook-secret" \in DOMAIN h)
        THEN responded("webhook", 401)
        ELSE LET v == verifyIncomingWebhook(stringify(b), h["x-webhook-signature"],
                                            h["x-webhook-secret"])
             IN  IF v.threw THEN responded("webhook", 500)
                 ELSE IF ~v.value THEN responded("webhook", 401)
                 ELSE IF ~("message" \in DOMAIN b /\ "session_id" \in DOMAIN b)
                      THEN responded("webhook", 400)
                      ELSE looking("webhook", b.session_id)

start(req) ==
    [(IF req.route = "message" THEN startMessage(req) ELSE startWebhookChat(req))
        EXCEPT !.request = <<req>>]

Received == {r \in 1 .. MaxRequests : reqs[r].pc # "none"}

\* one read of a connection completes the requests of batch, in order
Receive(batch) ==
    LET first == Cardinality(Received) + 1
        last == Cardinality(Received) + Len(batch)
    IN  /\ microtasks = <<>>
        /\ last <= MaxRequests
        /\ reqs' = [r \in 1 .. MaxRequests |->
                      IF r \in first .. last THEN start(batch[r - first + 1])
                      ELSE reqs[r]]
        /\ microtasks' = SelectSeq(Ascending(first .. last),
                                   LAMBDA r : reqs'[r].pc = "lookup")
        /\ UNCHANGED <<storeVars, dispVars, sent>>

\* what a segment of a handler leaves of the store
ChatWrote(convs, msgs, recs, counter, ids, c, out) ==
    /\ conversations' = convs
    /\ messages' = msgs
    /\ recommendations' = recs
    /\ currentId' = counter
    /\ issued' = issued \o ids
    /\ call' = c
    /\ ret' = out
    /\ UNCHANGED <<users, products, orders, webhooks, now>>

Created1(map, c) == (c.record.id :> c.record) @@ map

\* handler r moves to pc and awaits a settled promise
Continue(r, handler) ==
    /\ reqs' = [reqs EXCEPT ![r] = handler]
    /\ microtasks' = Append(Tail(microtasks), r)

\* handler r moves to pc and awaits an exchange, or has responded
Park(r, handler) ==
    /\ reqs' = [reqs EXCEPT ![r] = handler]
    /\ microtasks' = Tail(microtasks)

saveUserMessage(r, h) ==
    LET c == createX([conversationId |-> h.conversation[1].id, role |-> "user",
                      content |-> "hi"], currentId, [timestamp |-> now])
    IN  /\ ChatWrote(conversations, Created1(messages, c), recommendations,
                     c.counter, <<c.record.id>>, <<"createMessage">>, <<c.record>>)
        /\ Continue(r, [h EXCEPT !.pc = "context"])

\* after await getConversationBySessionId: get-or-create, then the user message
Lookup(r, h) ==
    IF h.conversation # <<>> THEN saveUserMessage(r, h)
    ELSE LET c == createX([sessionId |-> h.sessionId, status |-> "active",
                           lastMessage |-> "hi"],
                          currentId, [createdAt |-> now, updatedAt |-> now])
         IN  /\ ChatWrote(Created1(conversations, c), messages, recommendations,
                          c.counter, <<c.record.id>>, <<"createConversation">>,
                          <<c.record>>)
             /\ Continue(r, [h EXCEPT !.conversation = <<c.record>>,
                                      !.pc = IF h.route = "message" THEN "hooks"
                                             ELSE "saveUser"])

\* await storage.getActiveWebhooks()
Hooks(r, h, next) ==
    /\ Continue(r, [h EXCEPT !.hooks = getActiveWebhooks, !.pc = next])
    /\ UNCHANGED storeVars

\* await webhookService.triggerX(conversation, webhooks): parks while there
\* are deliveries out, goes on at once when no subscription is relevant;
\* triggered is history, the events the handler has handed to the dispatcher
Notify(r, h, event, parked, next) ==
    /\ IF relevantWebhooks(h.hooks, event) = <<>>
       THEN Continue(r, [h EXCEPT !.pc = next, !.triggered = Append(@, event)])
       ELSE Park(r, [h EXCEPT !.pc = parked, !.triggered = Append(@, event)])
    /\ UNCHANGED storeVars

\* the reads of the context, then await openaiService.processMessage
Context(r, h) ==
    /\ Park(r, [h EXCEPT !.pc = "thinking"])
    /\ UNCHANGED storeVars

\* the assistant's message
Reply(r, h) ==
    LET c == createX([conversationId |-> h.conversation[1].id, role |-> "assistant",
                      content |-> "answer"], currentId, [timestamp |-> now])
    IN  /\ ChatWrote(conversations, Created1(messages, c), recommendations,
                     c.counter, <<c.record.id>>, <<"createMessage">>, <<c.record>>)
        /\ Continue(r, [h EXCEPT !.pc = IF h.route = "message" THEN "recs"
                                        ELSE "metric"])

updateFrom(r, h) ==
    /\ ChatWrote(updateConversation(conversations, h.conversation[1].id,
                    [lastMessage |-> "hi",
                     status |-> IF h.ai[1].shouldEscalate THEN "escalated"
                                ELSE "active"], now),
                 messages, recommendations, currentId, <<>>,
                 <<"updateConversation">>, <<>>)
    /\ Continue(r, [h EXCEPT !.pc = "updated"])

\* the recommendations of the answer, one createRecommendation each, then
\* updateConversation
Recs(r, h) ==
    IF h.ai[1].recommendations = 0 THEN updateFrom(r, h)
    ELSE LET c == createX([conversationId |-> h.conversation[1].id, productId |-> 1,
                           presented |-> TRUE], currentId, [createdAt |-> now])
         IN  /\ ChatWrote(conversations, messages, Created1(recommendations, c),
                          c.counter, <<c.record.id>>, <<"createRecommendation">>,
                          <<c.record>>)
             /\ Continue(r, [h EXCEPT !.pc = "update"])

\* recordApiMetric logs and keeps nothing
Metric(r, h) ==
    /\ Continue(r, [h EXCEPT !.pc = "respond"])
    /\ UNCHANGED storeVars

\* res.json(...)
Respond(r, h) ==
    /\ Park(r, [h EXCEPT !.pc = "done", !.status = 200])
    /\ UNCHANGED storeVars

\* the first handler of the microtask queue runs to its next await
RunMicrotask ==
    /\ microtasks # <<>>
    /\ LET r == Head(microtasks)
           h == reqs[r]
       IN  CASE h.pc = "lookup" -> Lookup(r, h)
             [] h.pc = "hooks" -> Hooks(r, h, "notify")
             [] h.pc = "notify" ->
                    Notify(r, h, "conversation.started", "notifying", "saveUser")
             [] h.pc = "saveUser" -> saveUserMessage(r, h)
             [] h.pc = "context" -> Context(r, h)
             [] h.pc = "reply" -> Reply(r, h)
             [] h.pc = "recs" -> Recs(r, h)
             [] h.pc = "update" -> updateFrom(r, h)
             [] h.pc = "updated" ->
                    IF h.ai[1].shouldEscalate THEN Hooks(r, h, "escalate")
                    ELSE Metric(r, h)
             [] h.pc = "escalate" ->
                    Notify(r, h, "conversation.escalated", "escalating", "escalated")
             [] h.pc = "escalated" -> Metric(r, h)
             [] h.pc = "metric" -> Metric(r, h)
             [] h.pc = "respond" -> Respond(r, h)
    /\ UNCHANGED <<dispVars, sent>>

\* every delivery of the fan-out handler r waits for has ended
Notified(r) ==
    /\ microtasks = <<>>
    /\ reqs[r].pc \in {"notifying", "escalating"}
    /\ reqs' = [reqs EXCEPT ![r].pc = IF @ = "notifying" THEN "saveUser" ELSE "escalated"]
    /\ microtasks' = <<r>>
    /\ UNCHANGED <<storeVars, dispVars, sent>>

\* the exchange with OpenAI ends: processMessage resolves, or throws and the
\* handler's catch answers 500
RetryAfterFailure(h, answer) ==
    IF answer.kind = "ok" THEN [h EXCEPT !.pc = "reply", !.ai = <<answer>>]
    ELSE [h EXCEPT !.pc = "context"]

afterAnswer(h, answer) ==
    IF answer.kind = "ok" THEN [h EXCEPT !.pc = "reply", !.ai = <<answer>>]
    ELSE [h EXCEPT !.pc = "done", !.status = 500]

Answered(r, answer) ==
    /\ microtasks = <<>>
    /\ reqs[r].pc = "thinking"
    /\ reqs' = [reqs EXCEPT ![r] = afterAnswer(@, answer)]
    /\ microtasks' = IF reqs'[r].pc = "done" THEN <<>> ELSE <<r>>
    /\ UNCHANGED <<storeVars, dispVars, sent>>

\* POST /api/webhooks, for a subscription to the two conversation events the
\* message route dispatches
ChatWebhookDrafts ==
    {[url |-> "http://t", secret |-> "k1", isActive |-> TRUE,
      events |-> [isArray |-> TRUE,
                  items |-> {"conversation.started", "conversation.escalated"}]]}

Subscribe(draft) == microtasks = <<>> /\ webhooks = Empty /\ CreateWebhook(draft)

Batches == UNION {[1 .. n -> ChatRequests] : n \in 1 .. MaxBatch}

NextChat ==
    \/ \E batch \in Batches : Receive(batch)
    \/ RunMicrotask
    \/ \E r \in 1 .. MaxRequests : Notified(r)
    \/ \E r \in 1 .. MaxRequests, answer \in AiAnswers : Answered(r, answer)
    \/ \E draft \in ChatWebhookDrafts : Subscribe(draft)

SpecChat == InitStore /\ [][NextChat]_vars

(* -------------------- order and subscription routes -------------------- *)
\* a response: its status and its JSON body, an array of objects
response(route, status, body) == [route |-> route, status |-> status, body |-> body]

Urls == {"http://t"}

\* POST /api/webhooks: the bodies, and webhookSchema.parse on them
ApiEvents == {[isArray |-> TRUE, items |-> {"order.created"}]}

RegisterBodies ==
    {u @@ e : u \in Opt("url", Urls \cup {"no url"}), e \in Opt("events", ApiEvents)}

webhookSchema(body) ==
    /\ "url" \in DOMAIN body
    /\ body.url \in Urls
    /\ "events" \in DOMAIN body
    /\ body.events.isArray

\* POST /api/webhooks; secret is what generateWebhookSecret() draws
PostWebhook(body, secret) ==
    /\ microtasks = <<>>
    /\ currentId <= MaxId
    /\ IF webhookSchema(body)
       THEN LET c == createX([url |-> body.url, events |-> body.events,
                              secret |-> secret, isActive |-> TRUE],
                             currentId, [createdAt |-> now])
            IN  /\ webhooks' = Created1(webhooks, c)
                /\ currentId' = c.counter
                /\ issued' = Append(issued, c.record.id)
                /\ call' = <<"createWebhook">>
                /\ ret' = <<c.record>>
                /\ sent' = <<response("POST /api/webhooks", 200, <<c.record>>)>>
       ELSE /\ sent' = <<response("POST /api/webhooks", 500, <<[error |-> "zod"]>>)>>
            /\ UNCHANGED <<webhooks, currentId, issued, call, ret>>
    /\ UNCHANGED <<users, conversations, messages, products, orders,
                   recommendations, now, dispVars, reqs, microtasks>>

\* GET /api/webhooks
ListWebhooks ==
    /\ microtasks = <<>>
    /\ sent' = <<response("GET /api/webhooks", 200, getAllWebhooks)>>
    /\ UNCHANGED <<storeVars, dispVars, reqs, microtasks>>

\* storage.deleteWebhook, called in a turn of its own
RemoveWebhook(id) == microtasks = <<>> /\ DeleteWebhook(id)

OrderBodies == {[customerId |-> "c1", totalAmount |-> "10"]}

\* the dispatcher calls no handler has taken
FreeFanout ==
    {d \in 1 .. MaxDispatch :
        disp[d].pc = "idle" /\ \A r \in 1 .. MaxRequests : reqs[r].fanout # d}

NextSlot == Cardinality(Received) + 1

\* POST /api/orders up to its first await: createOrder has run
PostOrder(body) ==
    /\ microtasks = <<>>
    /\ NextSlot <= MaxRequests
    /\ FreeFanout # {}
    /\ LET c == createX(body, currentId, [createdAt |-> now, updatedAt |-> now])
       IN  /\ orders' = Created1(orders, c)
           /\ currentId' = c.counter
           /\ issued' = Append(issued, c.record.id)
           /\ call' = <<"createOrder">>
           /\ ret' = <<c.record>>
           /\ reqs' = [reqs EXCEPT ![NextSlot] =
                  [NoRequest EXCEPT !.pc = "created", !.route = "orders",
                                    !.order = <<c.record>>,
                                    !.fanout = Min(FreeFanout),
                                    !.request = <<[route |-> "orders", body |-> body]>>]]
    /\ microtasks' = <<NextSlot>>
    /\ UNCHANGED <<users, conversations, messages, products, recommendations,
                   webhooks, now, dispVars, sent>>

\* POST /api/webhooks/:id/test up to its first await: getWebhook has run
PostTest(id) ==
    /\ microtasks = <<>>
    /\ NextSlot <= MaxRequests
    /\ id \in DOMAIN webhooks => FreeFanout # {}
    /\ reqs' = [reqs EXCEPT ![NextSlot] =
           [NoRequest EXCEPT !.pc = "got", !.route = "test",
                             !.hooks = IF id \in DOMAIN webhooks
                                       THEN <<webhooks[id]>> ELSE <<>>,
                             !.fanout = IF id \in DOMAIN webhooks
                                        THEN Min(FreeFanout) ELSE 0,
                             !.request = <<[route |-> "test", id |-> id]>>]]
    /\ microtasks' = <<NextSlot>>
    /\ UNCHANGED <<storeVars, dispVars, sent>>

\* the handler calls the dispatcher and awaits it: parked while deliveries are
\* out, going on at once when there is no target
Dispatch(r, h, kind, payload, targets, parked, next) ==
    LET atts == [i \in DOMAIN targets |->
                    attempt(targets[i], payload, i \in issuedByMap(targets))]
        pc == awaited(promiseAll([i \in DOMAIN atts |-> atts[i].promise]))
    IN  /\ att' = [att EXCEPT ![h.fanout] = atts]
        /\ disp' = [disp EXCEPT ![h.fanout] =
                [pc |-> pc, kind |-> kind, event |-> payload.event,
                 payload |-> payload, list |-> h.hooks]]
        /\ IF pc = "waiting" THEN Park(r, [h EXCEPT !.pc = parked])
           ELSE Continue(r, [h EXCEPT !.pc = next])
        /\ UNCHANGED <<storeVars, sent>>

\* res.json / res.status(...).json: the handler has ended
Answer(r, h, resp) ==
    /\ Park(r, [h EXCEPT !.pc = "done", !.status = resp.status])
    /\ sent' = <<resp>>
    /\ UNCHANGED <<storeVars, dispVars>>

\* POST /api/orders after await triggerOrderCreated: res.json(order), or the
\* catch when the awaited call threw
orderResponse(order, outcome) ==
    IF outcome = "threw"
    THEN response("POST /api/orders", 500, <<[error |-> "thrown"]>>)
    ELSE response("POST /api/orders", 200, <<order>>)

\* the boolean testWebhook resolves with
SuccessAlways(a) == TRUE

success(a) == a.status = "DELIVERED"

testResponse(outcome, ok) ==
    IF outcome = "threw"
    THEN response("POST /api/webhooks/:id/test", 500, <<[error |-> "thrown"]>>)
    ELSE response("POST /api/webhooks/:id/test", 200, <<[success |-> ok]>>)

\* POST /api/webhooks/:id/test after await testWebhook
Tested(r, h) ==
    IF disp[h.fanout].pc # "threw" /\ success(att[h.fanout][1])
    THEN /\ webhooks' = updateWebhook(webhooks, h.request[1].id,
                                      [lastTriggered |-> now])
         /\ call' = <<"updateWebhook", h.request[1].id>>
         /\ ret' = IF h.request[1].id \in DOMAIN webhooks
                   THEN <<webhooks'[h.request[1].id]>> ELSE <<>>
         /\ Continue(r, [h EXCEPT !.pc = "stamped"])
         /\ UNCHANGED <<users, conversations, messages, products, orders,
                        recommendations, currentId, now, issued, dispVars, sent>>
    ELSE Answer(r, h, testResponse(disp[h.fanout].pc, FALSE))

\* the first handler of the microtask queue runs to its next await
RunApi ==
    /\ microtasks # <<>>
    /\ LET r == Head(microtasks)
           h == reqs[r]
       IN  CASE h.route = "orders" /\ h.pc = "created" ->
                    Hooks(r, h, "hooks") /\ UNCHANGED <<dispVars, sent>>
             [] h.route = "orders" /\ h.pc = "hooks" ->
                    Dispatch(r, h, "trigger",
                             [event |-> "order.created", timestamp |-> now,
                              data |-> [orderId |-> h.order[1].id]],
                             relevantWebhooks(h.hooks, "order.created"),
                             "dispatching", "dispatched")
             [] h.route = "orders" /\ h.pc = "dispatched" ->
                    Answer(r, h, orderResponse(h.order[1], disp[h.fanout].pc))
             [] h.route = "test" /\ h.pc = "got" ->
                    IF h.hooks = <<>>
                    THEN Answer(r, h, response("POST /api/webhooks/:id/test", 404,
                                               <<[error |-> "Webhook not found"]>>))
                    ELSE Dispatch(r, h, "test",
                                  [event |-> "webhook.test", timestamp |-> now,
                                   data |-> [webhookId |-> h.hooks[1].id]],
                                  h.hooks, "testing", "tested")
             [] h.route = "test" /\ h.pc = "tested" -> Tested(r, h)
             [] h.route = "test" /\ h.pc = "stamped" ->
                    Answer(r, h, testResponse(disp[h.fanout].pc, TRUE))

\* the exchange with target i of fan-out d ends; when that settles the
\* Promise.all, the handler awaiting it goes on
Deliver(d, i, answer) ==
    /\ microtasks = <<>>
    /\ i \in DOMAIN att[d]
    /\ att[d][i].status = "PENDING"
    /\ LET atts == settle(att[d], i, answer)
           pc == IF disp[d].pc = "waiting"
                 THEN awaited(promiseAll([j \in DOMAIN atts |-> atts[j].promise]))
                 ELSE disp[d].pc
           waiters == {r \in 1 .. MaxRequests :
                          /\ reqs[r].fanout = d
                          /\ reqs[r].pc \in {"dispatching", "testing"}}
       IN  /\ att' = [att EXCEPT ![d] = atts]
           /\ disp' = [disp EXCEPT ![d].pc = pc]
           /\ IF pc # "waiting" /\ waiters # {}
              THEN /\ reqs' = [r \in 1 .. MaxRequests |->
                         IF r \in waiters
                         THEN [reqs[r] EXCEPT !.pc = IF @ = "dispatching"
                                                     THEN "dispatched" ELSE "tested"]
                         ELSE reqs[r]]
                   /\ microtasks' = Ascending(waiters)
              ELSE UNCHANGED <<reqs, microtasks>>
    /\ UNCHANGED <<storeVars, sent>>

NextApi ==
    \/ \E body \in RegisterBodies, secret \in Secrets : PostWebhook(body, secret)
    \/ ListWebhooks
    \/ \E id \in 1 .. MaxWebhooks : RemoveWebhook(id)
    \/ \E body \in OrderBodies : PostOrder(body)
    \/ \E id \in 1 .. MaxWebhooks : PostTest(id)
    \/ RunApi
    \/ \E d \in 1 .. MaxDispatch, i \in 1 .. MaxWebhooks, answer \in Answers :
           Deliver(d, i, answer)

SpecApi == InitStore /\ [][NextApi]_vars

(* ------------------------- signing and verifying ----------------------- *)
VerifySecrets == {"k1", "k2", "k1+00"}

VerifyPayloads == {stringify(b) : b \in WebhookBodies}

\* the tags a caller may supply: genuine tags, and texts of other lengths
SuppliedTags ==
    {generateSignature(p, k) : p \in VerifyPayloads, k \in VerifySecrets}
        \cup {<<"text", n>> : n \in {0, 5, 65}}

Sign(payload, secret) ==
    /\ call' = <<"generateSignature", payload, secret>>
    /\ ret' = <<generateSignature(payload, secret)>>
    /\ UNCHANGED <<users, conversations, messages, products, orders,
                   recommendations, webhooks, currentId, now, issued>>
    /\ UNCHANGED <<dispVars, chatVars>>

Verify(payload, tag, secret) ==
    /\ call' = <<"verifySignature", payload, tag, secret>>
    /\ ret' = <<verifySignature(payload, tag, secret)>>
    /\ UNCHANGED <<users, conversations, messages, products, orders,
                   recommendations, webhooks, currentId, now, issued>>
    /\ UNCHANGED <<dispVars, chatVars>>

NextVerify ==
    \/ \E p \in VerifyPayloads, k \in VerifySecrets : Sign(p, k)
    \/ \E p \in VerifyPayloads, t \in SuppliedTags, k \in VerifySecrets :
           Verify(p, t, k)

SpecVerify == InitStore /\ [][NextVerify]_vars

(* ------------------------------ verify: claims ------------------------- *)
Verified == call[1] = "verifySignature"

\* the tag supplied to the last verify call is sign(payload, s1) for this s1
SignedUnder(s1) == call[3] = generateSignature(call[2], s1)

\* C12, as stated: a tag made under the secret verifies, and a tag made under
\* any other secret does not
C12_VerifyIffSameSecret ==
    Verified =>
        \A s1 \in VerifySecrets :
            SignedUnder(s1) =>
                /\ ~ret[1].threw
                /\ ret[1].value <=> s1 = call[4]

\* C12, amended: a tag made under the secret verifies, and a tag made under a
\* secret that is another HMAC key (differs otherwise than by trailing zero
\* bytes) does not
C12_VerifyIffSameKey ==
    Verified =>
        \A s1 \in VerifySecrets :
            SignedUnder(s1) =>
                /\ ~ret[1].threw
                /\ s1 = call[4] => ret[1].value
                /\ hmacKey(s1) # hmacKey(call[4]) => ~ret[1].value

\* verify calls on a genuine tag, one under its secret and one under another key
C12_Witness ==
    /\ Verified
    /\ SignedUnder("k2")
    /\ call[4] = "k1"
    /\ ret = <<[threw |-> FALSE, value |-> FALSE]>>

\* C13: verify returns a boolean for every supplied tag, and false for a tag
\* whose length is not that of the expected tag
C13_VerifyNeverThrows ==
    Verified =>
        /\ ~ret[1].threw
        /\ byteLength(call[3]) # 64 => ~ret[1].value

(* -------------------------------- chat: claims ------------------------- *)
\* C1: whatever the order in which chat-message and chat-webhook requests are
\* served, no two conversations of the store have the same sessionId
C1_OneConversationPerSession ==
    \A i, j \in DOMAIN conversations :
        conversations[i].sessionId = conversations[j].sessionId => i = j

\* the requests handled so far on a chat route
Handled(route) == {r \in Received : reqs[r].route = route}

\* a chat-webhook request that does not authenticate: a header is absent, or
\* the signature is not the tag of the body under the secret sent
Unauthenticated(req) ==
    \/ "x-webhook-signature" \notin DOMAIN req.headers
    \/ "x-webhook-secret" \notin DOMAIN req.headers
    \/ req.headers["x-webhook-signature"] #
           generateSignature(stringify(req.body), req.headers["x-webhook-secret"])

\* the handler answered at once and did nothing else
RejectedWith(h, status) ==
    h.pc = "done" /\ h.status = status /\ h.conversation = <<>> /\ h.ai = <<>>

\* C14: a chat-webhook request that does not authenticate is answered 401 and
\* its handler stops there: it looks up or creates no conversation, saves no
\* message and does not call the AI
C14_UnauthenticatedIs401 ==
    \A r \in Handled("webhook") :
        Unauthenticated(reqs[r].request[1]) => RejectedWith(reqs[r], 401)

\* C15: a chat request without message or session id is answered 400 and its
\* handler stops there (on the chat-webhook route, once it has authenticated)
C15_MalformedIs400 ==
    /\ \A r \in Handled("message") :
          ~messageSchema(reqs[r].request[1].body) => RejectedWith(reqs[r], 400)
    /\ \A r \in Handled("webhook") :
          (/\ ~Unauthenticated(reqs[r].request[1])
           /\ ~({"message", "session_id"} \subseteq DOMAIN reqs[r].request[1].body))
              => RejectedWith(reqs[r], 400)

\* the conversation of a handler and a user message of it are in the store
Persisted(h) ==
    /\ h.conversation[1].id \in DOMAIN conversations
    /\ \E m \in DOMAIN messages :
          /\ messages[m].conversationId = h.conversation[1].id
          /\ messages[m].role = "user"

AssistantMessages == {m \in DOMAIN messages : messages[m].role = "assistant"}

\* C19: when the AI call of a chat request fails, the request ends there with
\* 500, that step changes nothing in the store and starts no dispatch, a
\* request that has ended does nothing more, the conversation and the user
\* message saved before the call stay, and the store holds no more assistant
\* messages or recommendations than AI answers were received
C19_AiFailureEndsRequest ==
    /\ [][\A r \in 1 .. MaxRequests :
            /\ (reqs[r].pc = "thinking" /\ reqs'[r].pc # "thinking"
                    /\ reqs'[r].ai = <<>>)
                  => /\ reqs'[r].pc = "done"
                     /\ reqs'[r].status = 500
                     /\ UNCHANGED <<storeVars, dispVars>>
            /\ reqs[r].pc = "done" => reqs'[r] = reqs[r]]_vars
    /\ [](\A r \in 1 .. MaxRequests :
            reqs[r].pc \in {"thinking", "done"} /\ reqs[r].conversation # <<>>
                => Persisted(reqs[r]))
    /\ [](/\ Cardinality(AssistantMessages)
                <= Cardinality({r \in Received : reqs[r].ai # <<>>})
          /\ Cardinality(DOMAIN recommendations)
                <= Cardinality({r \in Received : reqs[r].ai # <<>>}))

\* a request on the message route ended with 500 after its AI call failed; its
\* conversation is still active and no assistant message exists
C19_Witness ==
    \E r \in Handled("message") :
        /\ reqs[r].pc = "done"
        /\ reqs[r].status = 500
        /\ reqs[r].conversation # <<>>
        /\ Persisted(reqs[r])
        /\ conversations[reqs[r].conversation[1].id].status = "active"
        /\ AssistantMessages = {}

(* ------------------------------ products: claims ----------------------- *)
\* a product without its syncedAt stamp
StripSynced(prods) ==
    [k \in DOMAIN prods |->
        [f \in DOMAIN prods[k] \ {"syncedAt"} |-> prods[k][f]]]

HasSid(prods, sid) == \E k \in DOMAIN prods : Get(prods[k], "shopifyId") = sid

IsSyncStep == call'[1] = "syncProducts" /\ SyncProducts(call'[2])

\* C2: a syncProducts(list) step that follows a syncProducts call of the same list
\* leaves the same products (syncedAt aside) and the same counter, creates no
\* product and returns a list of the same length
C2_SyncIdempotent ==
    [][(call[1] = "syncProducts" /\ IsSyncStep /\ call'[2] = call[2])
        => /\ StripSynced(products') = StripSynced(products)
           /\ currentId' = currentId
           /\ Len(ret') = Len(ret)]_vars

\* C3: no two products carry the same present external id
C3_UniqueExternalId ==
    \A i, j \in DOMAIN products :
        (i # j /\ "shopifyId" \in DOMAIN products[i]
               /\ "shopifyId" \in DOMAIN products[j])
            => products[i].shopifyId # products[j].shopifyId

\* C4: a syncProducts(list) step returns one entry per draft, in input order,
\* removes no product, creates exactly one product per external id of the list
\* that no product carried, and updates in place (same internal id, same key)
\* the product that carried a draft's external id
C4_SyncIsUpsert ==
    [][IsSyncStep =>
        LET drafts == call'[2]
            fresh == {Get(drafts[i], "shopifyId") : i \in DOMAIN drafts}
                        \ {Get(products[k], "shopifyId") : k \in DOMAIN products}
        IN  /\ Len(ret') = Len(drafts)
            /\ \A i \in DOMAIN ret' :
                  /\ Get(ret'[i], "shopifyId") = Get(drafts[i], "shopifyId")
                  /\ ret'[i].title = drafts[i].title
                  /\ ret'[i].id \in DOMAIN products'
                  /\ HasSid(products, Get(drafts[i], "shopifyId"))
                        => ret'[i].id = getProductByShopifyId(
                                            products, Get(drafts[i], "shopifyId"))
            /\ DOMAIN products \subseteq DOMAIN products'
            /\ Cardinality(DOMAIN products' \ DOMAIN products) = Cardinality(fresh)
      ]_vars

(* -------------------------------- ids: claims -------------------------- *)
CreateCalls ==
    {"createUser", "createConversation", "createMessage", "createProduct",
     "createOrder", "createRecommendation", "createWebhook"}

HeldKeys ==
    <<DOMAIN users, DOMAIN conversations, DOMAIN messages, DOMAIN products,
      DOMAIN orders, DOMAIN recommendations, DOMAIN webhooks>>

IssuedSet == {issued[i] : i \in DOMAIN issued}

\* C5: the ids handed out are strictly increasing, a createX returns the newest
\* of them, which is above every earlier one (held or deleted since), and no id
\* is held by two maps
C5_IdsIncreaseAcrossKinds ==
    /\ \A i, j \in DOMAIN issued : i < j => issued[i] < issued[j]
    /\ call[1] \in CreateCalls =>
          /\ ret[1].id = issued[Len(issued)]
          /\ \A i \in 1 .. Len(issued) - 1 : issued[i] < ret[1].id
    /\ \A m \in DOMAIN HeldKeys : HeldKeys[m] \subseteq IssuedSet
    /\ \A m, n \in DOMAIN HeldKeys : m # n => HeldKeys[m] \cap HeldKeys[n] = {}

\* a webhook was created after another had been deleted, beside other kinds
C5_Witness ==
    /\ call[1] = "createWebhook"
    /\ \E i \in IssuedSet :
          /\ i < ret[1].id
          /\ \A m \in DOMAIN HeldKeys : i \notin HeldKeys[m]
    /\ DOMAIN conversations # {}

(* ----------------------------- dispatcher: claims ---------------------- *)
Dispatches == {d \in 1 .. MaxDispatch : disp[d].pc # "idle"}

Terminal == {"DELIVERED", "FAILED"}

Is2xx(answer) == answer.kind = "response" /\ answer.status \in 200 .. 299

Interested(w, event) ==
    Get(w, "isActive") = TRUE /\ w.events.isArray /\ event \in w.events.items

\* C6: a dispatch of event E over a list makes one attempt per subscription of
\* the list that is active and whose event set holds E, in list order, and none
\* for another; each attempt is one request to the subscription's url whose
\* signature is the HMAC of the body sent under that subscription's own secret
C6_DispatchSelectsAndSigns ==
    \A d \in Dispatches :
        disp[d].kind = "trigger" =>
            LET list == disp[d].list
                sel == {i \in DOMAIN list : Interested(list[i], disp[d].event)}
            IN  /\ Len(att[d]) = Cardinality(sel)
                /\ \A n \in DOMAIN att[d] :
                      /\ att[d][n].webhook = list[Ascending(sel)[n]]
                      /\ Len(att[d][n].requests) = 1
                      /\ att[d][n].requests[1].url = att[d][n].webhook.url
                      /\ att[d][n].requests[1].event = disp[d].event
                      /\ att[d][n].requests[1].body = <<"json", disp[d].payload>>
                      /\ att[d][n].requests[1].signature =
                            <<"hmac-sha256", att[d][n].webhook.secret,
                              att[d][n].requests[1].body>>

\* a list of two subscriptions with different secrets, both interested in the
\* event, of which one is inactive: one attempt, to the active one
C6_Witness ==
    \E d \in Dispatches :
        /\ disp[d].kind = "trigger"
        /\ Len(disp[d].list) = 2
        /\ Len(att[d]) = 1
        /\ \E i \in 1 .. 2 :
              /\ Get(disp[d].list[i], "isActive") = FALSE
              /\ disp[d].list[i].events = att[d][1].webhook.events
              /\ disp[d].list[i].secret # att[d][1].webhook.secret

\* C7: beside a target that failed, every other target of the fan-out was sent
\* its request, is DELIVERED when it answered 2xx, and is still PENDING (free to
\* succeed) while it has not answered
C7_Bulkhead ==
    \A d \in Dispatches : \A i, j \in DOMAIN att[d] :
        (i # j /\ att[d][i].status = "FAILED") =>
            /\ Len(att[d][j].requests) = 1
            /\ att[d][j].answers = <<>> => att[d][j].status = "PENDING"
            /\ (att[d][j].answers # <<>> /\ Is2xx(att[d][j].answers[1]))
                  => att[d][j].status = "DELIVERED"

\* a complete fan-out of two: one timed out, the other delivered
C7_Witness ==
    \E d \in Dispatches :
        /\ disp[d].pc = "complete"
        /\ Len(att[d]) = 2
        /\ \E i, j \in 1 .. 2 :
              /\ att[d][i].status = "FAILED"
              /\ att[d][i].answers[1].kind = "timeout"
              /\ att[d][j].status = "DELIVERED"

\* C8: no dispatcher call ends with an exception, no attempt's promise rejects,
\* and a call whose attempts have all ended has completed
C8_NoThrow ==
    \A d \in Dispatches :
        /\ disp[d].pc # "threw"
        /\ \A i \in DOMAIN att[d] : att[d][i].promise # "rejected"
        /\ (\A i \in DOMAIN att[d] : att[d][i].status \in Terminal)
              => disp[d].pc = "complete"

\* a testWebhook call that completed though its delivery met a transport error
C8_Witness ==
    \E d \in Dispatches :
        /\ disp[d].kind = "test"
        /\ disp[d].pc = "complete"
        /\ att[d][1].answers[1].kind = "error"

\* C9: while the dispatcher waits, and after, the request of every selected
\* subscription is out; the fan-out is complete exactly when every attempt has
\* ended
C9_IssueAllThenAwaitAll ==
    \A d \in Dispatches :
        /\ \A i \in DOMAIN att[d] : att[d][i].status # "NONE"
        /\ disp[d].pc = "complete"
              <=> \A i \in DOMAIN att[d] : att[d][i].status \in Terminal
        /\ disp[d].pc = "waiting"
              <=> \E i \in DOMAIN att[d] : att[d][i].status = "PENDING"

\* a fan-out of two that still waits after one of its targets has answered
C9_Witness ==
    \E d \in Dispatches :
        /\ disp[d].pc = "waiting"
        /\ Len(att[d]) = 2
        /\ \E i, j \in 1 .. 2 :
              att[d][i].status \in Terminal /\ att[d][j].status = "PENDING"

AttemptWellFormed(a) ==
    /\ Len(a.requests) = 1
    /\ a.status = "PENDING" <=> a.answers = <<>>
    /\ a.status \in Terminal => Len(a.answers) = 1
    /\ a.status = "DELIVERED" <=> (a.answers # <<>> /\ Is2xx(a.answers[1]))

\* C10: an attempt sends one request and takes one answer; it is DELIVERED
\* exactly when that answer is a 2xx response and FAILED on any other answer;
\* once DELIVERED or FAILED it never changes again
C10_OneShotDelivery ==
    /\ [](\A d \in Dispatches : \A i \in DOMAIN att[d] : AttemptWellFormed(att[d][i]))
    /\ [][\A d \in Dispatches : \A i \in DOMAIN att[d] :
            att[d][i].status \in Terminal => att'[d][i] = att[d][i]]_vars

\* one attempt FAILED on a 300 beside one DELIVERED on a 299
C10_Witness ==
    \E d \in Dispatches : \E i, j \in DOMAIN att[d] :
        /\ att[d][i].status = "FAILED"
        /\ att[d][i].answers = <<[kind |-> "response", status |-> 300]>>
        /\ att[d][j].status = "DELIVERED"
        /\ att[d][j].answers = <<[kind |-> "response", status |-> 299]>>
(* ------------------------- order routes: claims ------------------------ *)
\* the deliveries of the dispatcher call of handler h that are still out
Outstanding(h) ==
    IF h.fanout = 0 THEN {}
    ELSE {i \in DOMAIN att[h.fanout] : att[h.fanout][i].status = "PENDING"}

\* C11: a handler of POST /api/orders has sent its response by the time any
\* delivery of its order.created dispatch is still out, and only the handler of
\* the test route is waiting while its delivery is out
C11_FireAndForget ==
    /\ \A r \in Handled("orders") :
          Outstanding(reqs[r]) # {} => reqs[r].pc = "done"
    /\ \A r \in Handled("test") :
          Outstanding(reqs[r]) # {} => reqs[r].pc = "testing"

\* C16: a step changes a stored subscription only when it is the step of a test
\* handler after its delivery was DELIVERED, for the subscription it names, and
\* then nothing but lastTriggered changes
C16_OnlyTestSuccessStamps ==
    [][\A id \in DOMAIN webhooks :
          (id \in DOMAIN webhooks' /\ webhooks'[id] # webhooks[id]) =>
              /\ \E r \in Handled("test") :
                    /\ reqs[r].pc = "tested"
                    /\ reqs'[r].pc = "stamped"
                    /\ reqs[r].request[1].id = id
                    /\ att[reqs[r].fanout][1].status = "DELIVERED"
              /\ webhooks'[id] = [lastTriggered |-> now] @@ webhooks[id]]_vars

\* one test ended with success and stamped its subscription, whose other
\* fields are what the test read
C16_Witness ==
    \E r \in Handled("test") :
        /\ reqs[r].pc = "done"
        /\ sent = <<response("POST /api/webhooks/:id/test", 200, <<[success |-> TRUE]>>)>>
        /\ reqs[r].request[1].id \in DOMAIN webhooks
        /\ webhooks[reqs[r].request[1].id] = [lastTriggered |-> now] @@ reqs[r].hooks[1]

\* ids the store has issued and holds no more
Removed == {id \in IssuedSet : \A m \in DOMAIN HeldKeys : id \notin HeldKeys[m]}

C18_OrderSurvivesDeliveryFailure ==
    /\ [](\A r \in Handled("orders") :
            /\ reqs[r].order[1].id \in DOMAIN orders
            /\ orders[reqs[r].order[1].id] = reqs[r].order[1])
    /\ [][\A r \in 1 .. MaxRequests :
            (reqs[r].route = "orders" /\ reqs[r].pc # "done" /\ reqs'[r].pc = "done")
                => /\ reqs'[r].status = 200
                   /\ sent' = <<response("POST /api/orders", 200, reqs[r].order)>>]_vars

\* an order request answered 200 though its only delivery failed
C18_Witness ==
    \E r \in Handled("orders") :
        /\ reqs[r].pc = "done"
        /\ reqs[r].status = 200
        /\ Len(att[reqs[r].fanout]) >= 1
        /\ \A i \in DOMAIN att[reqs[r].fanout] : att[reqs[r].fanout][i].status = "FAILED"
        /\ orders[reqs[r].order[1].id] = reqs[r].order[1]

\* C20: no response but that of the request creating a subscription holds a
\* secret, and no outbound request holds one in its url, body or event header
C20_SecretOnlyAtCreation ==
    /\ \A i \in DOMAIN sent :
          sent[i].route # "POST /api/webhooks" =>
              \A j \in DOMAIN sent[i].body : "secret" \notin DOMAIN sent[i].body[j]
    /\ \A d \in Dispatches : \A i \in DOMAIN att[d] : \A n \in DOMAIN att[d][i].requests :
          /\ "secret" \notin DOMAIN att[d][i].requests[n].body[2]
          /\ "secret" \notin DOMAIN att[d][i].requests[n].body[2].data
(* ------------------------------- analytics ----------------------------- *)
MaxRecords == 4

\* the decimal column total_amount, a string in the record
Amounts == {"10.00", "25.00"}

\* Number(order.totalAmount)
Number(s) == CASE s = "10.00" -> 10 [] s = "25.00" -> 25 [] OTHER -> 0

RECURSIVE GCD(_, _)
GCD(a, b) == IF b = 0 THEN a ELSE GCD(b, a % b)

\* a / b for b > 0: the number, as the fraction in lowest terms
Quotient(a, b) == [num |-> a \div GCD(a, b), den |-> b \div GCD(a, b)]

Zero == [num |-> 0, den |-> 1]

ReduceCounting(os, sum) == sum + Len(os)

\* completedOrders.reduce((sum, order) => sum + Number(order.totalAmount), 0)
RECURSIVE reduce(_, _)
reduce(os, sum) ==
    IF os = <<>> THEN sum ELSE reduce(Tail(os), sum + Number(Head(os).totalAmount))

\* order.conversationId as a member of the Set: the number, or undefined
conversationIdOf(order) ==
    IF "conversationId" \in DOMAIN order THEN <<order.conversationId>> ELSE <<>>

\* new Set(orders.map(order => order.conversationId)).size
conversationsWithOrders(os) == Cardinality({conversationIdOf(os[i]) : i \in DOMAIN os})

getMetrics(convs, ords) ==
    LET os == Values(ords)
        activeConversations ==
            Len(SelectSeq(Values(convs), LAMBDA c : Get(c, "status") = "active"))
        totalConversations == Cardinality(DOMAIN convs)
        completedOrders == SelectSeq(os, LAMBDA o : Get(o, "status") = "completed")
        totalRevenue == reduce(completedOrders, 0)
        averageOrderValue ==
            IF Len(completedOrders) > 0
            THEN Quotient(totalRevenue, Len(completedOrders)) ELSE Zero
        conversionRate ==
            IF totalConversations > 0
            THEN Quotient(conversationsWithOrders(os), totalConversations) ELSE Zero
    IN  [activeConversations |-> activeConversations,
         totalConversations |-> totalConversations,
         conversionRate |-> conversionRate,
         totalRevenue |-> totalRevenue,
         averageOrderValue |-> averageOrderValue,
         totalOrders |-> Len(os)]

\* GET /api/metrics
GetMetrics ==
    /\ ret' = <<getMetrics(conversations, orders)>>
    /\ call' = <<"getMetrics">>
    /\ UNCHANGED <<users, conversations, messages, products, orders,
                   recommendations, webhooks, currentId, now, issued>>
    /\ UNCHANGED <<dispVars, chatVars>>

MetricConversationDrafts ==
    {[sessionId |-> "s1", status |-> s] : s \in {"active", "completed"}}

MetricOrderDrafts ==
    {c @@ [status |-> s, totalAmount |-> a] :
        c \in Opt("conversationId", 1 .. 2), s \in {"completed", "pending"},
        a \in Amounts}

AddConversation(draft) ==
    LET c == createX(draft, currentId, [createdAt |-> now, updatedAt |-> now])
    IN  /\ currentId <= MaxRecords
        /\ conversations' = (c.record.id :> c.record) @@ conversations
        /\ Created(c, "createConversation")
        /\ UNCHANGED <<users, messages, products, orders, recommendations, webhooks>>

AddOrder(draft) ==
    LET c == createX(draft, currentId, [createdAt |-> now, updatedAt |-> now])
    IN  /\ currentId <= MaxRecords
        /\ orders' = (c.record.id :> c.record) @@ orders
        /\ Created(c, "createOrder")
        /\ UNCHANGED <<users, conversations, messages, products, recommendations,
                       webhooks>>

NextMetrics ==
    \/ \E d \in MetricConversationDrafts : AddConversation(d)
    \/ \E d \in MetricOrderDrafts : AddOrder(d)
    \/ GetMetrics

SpecMetrics == InitStore /\ [][NextMetrics]_vars

(* ---------------------------- analytics: claims ------------------------ *)
\* the conversation ids that appear on at least one order
OrderedConversations ==
    {orders[k].conversationId :
        k \in {j \in DOMAIN orders : "conversationId" \in DOMAIN orders[j]}}

Measured == call = <<"getMetrics">>

\* C21: the conversionRate getMetrics returns, times the number of
\* conversations, is the number of distinct conversation ids on orders, and it
\* is 0 when there is no conversation
C21_ConversionRate ==
    Measured =>
        LET m == ret[1]
            total == Cardinality(DOMAIN conversations)
        IN  IF total = 0 THEN m.conversionRate = Zero
            ELSE m.conversionRate.num * total
                    = Cardinality(OrderedConversations) * m.conversionRate.den

Completed == {k \in DOMAIN orders : Get(orders[k], "status") = "completed"}

RECURSIVE Revenue(_)
Revenue(S) ==
    IF S = {} THEN 0
    ELSE LET k == CHOOSE x \in S : TRUE
         IN  Number(orders[k].totalAmount) + Revenue(S \ {k})

\* C22: the totalRevenue getMetrics returns is the sum of totalAmount over the
\* completed orders; averageOrderValue times the number of completed orders is
\* totalRevenue, and is 0 when no order is completed; on an empty store every
\* figure is 0
C22_RevenueAndAverage ==
    Measured =>
        LET m == ret[1]
            n == Cardinality(Completed)
        IN  /\ m.totalRevenue = Revenue(Completed)
            /\ m.averageOrderValue.den > 0
            /\ IF n = 0 THEN m.averageOrderValue = Zero
               ELSE m.averageOrderValue.num * n
                        = m.totalRevenue * m.averageOrderValue.den
            /\ (conversations = Empty /\ orders = Empty) =>
                  m = [activeConversations |-> 0, totalConversations |-> 0,
                       conversionRate |-> Zero, totalRevenue |-> 0,
                       averageOrderValue |-> Zero, totalOrders |-> 0]

\* figures taken over two completed orders of 10 and 25 and a pending one
C22_Witness ==
    /\ Measured
    /\ Cardinality(Completed) = 2
    /\ Cardinality(DOMAIN orders) = 3
    /\ ret[1].totalRevenue = 35
    /\ ret[1].averageOrderValue = [num |-> 35, den |-> 2]

(* ----------------------- recommendation analytics ---------------------- *)
MaxTop == 6
MaxLimit == 2

\* the keys of productStats in insertion order: the product ids the
\* recommendations reference, each at its first appearance
RECURSIVE statsKeys(_, _)
statsKeys(recs, seen) ==
    IF recs = <<>> THEN seen
    ELSE LET pid == Head(recs).productId
         IN  statsKeys(Tail(recs),
                       IF \E i \in DOMAIN seen : seen[i] = pid THEN seen
                       ELSE Append(seen, pid))

\* productStats.get(productId) after the first loop
productStats(recs, pid) ==
    [recommendations |-> Len(SelectSeq(recs, LAMBDA r : r.productId = pid)),
     accepted |-> Len(SelectSeq(recs, LAMBDA r :
                        r.productId = pid /\ Get(r, "accepted") = TRUE))]

\* the second loop: one entry per key whose product the store holds
RECURSIVE results(_, _, _)
results(keys, recs, prods) ==
    IF keys = <<>> THEN <<>>
    ELSE LET stats == productStats(recs, Head(keys))
             rest == results(Tail(keys), recs, prods)
         IN  IF Head(keys) \in DOMAIN prods
             THEN <<[product |-> prods[Head(keys)],
                     recommendations |-> stats.recommendations,
                     successRate |->
                         IF stats.recommendations > 0
                         THEN Quotient(stats.accepted, stats.recommendations)
                         ELSE Zero]>> \o rest
             ELSE rest

\* e put into a list sorted by (a, b) => b.recommendations - a.recommendations,
\* behind the entries that do not compare after it (Array.prototype.sort is stable)
RECURSIVE insertSorted(_, _)
insertSorted(s, e) ==
    IF s = <<>> THEN <<e>>
    ELSE IF Head(s).recommendations >= e.recommendations
         THEN <<Head(s)>> \o insertSorted(Tail(s), e)
         ELSE <<e>> \o s

RECURSIVE sortFrom(_, _)
sortFrom(s, acc) ==
    IF s = <<>> THEN acc ELSE sortFrom(Tail(s), insertSorted(acc, Head(s)))

Unsorted(s) == s

sort(s) == sortFrom(s, <<>>)

\* array.slice(0, limit)
slice(s, limit) ==
    IF limit >= 0 THEN SubSeq(s, 1, Min({limit, Len(s)}))
    ELSE SubSeq(s, 1, Max({0, Len(s) + limit}))

getTopRecommendedProducts(recommendationMap, prods, limit) ==
    LET recs == Values(recommendationMap)
    IN  slice(sort(results(statsKeys(recs, <<>>), recs, prods)), limit)

\* GET /api/analytics/recommendations, and the call with another limit
GetTopRecommendedProducts(limit) ==
    /\ ret' = getTopRecommendedProducts(recommendations, products, limit)
    /\ call' = <<"getTopRecommendedProducts", limit>>
    /\ UNCHANGED <<users, conversations, messages, products, orders,
                   recommendations, webhooks, currentId, now, issued>>
    /\ UNCHANGED <<dispVars, chatVars>>

TopRecommendationDrafts ==
    {[conversationId |-> 1, productId |-> p, type |-> "primary", accepted |-> a] :
        p \in 1 .. 2, a \in BOOLEAN}

AddProduct(draft) ==
    /\ currentId <= MaxTop
    /\ StoreProductResult(createProduct(ProductStore, draft, now), <<"createProduct">>)

AddRecommendation(draft) ==
    LET c == createX(draft, currentId, [createdAt |-> now])
    IN  /\ currentId <= MaxTop
        /\ recommendations' = (c.record.id :> c.record) @@ recommendations
        /\ Created(c, "createRecommendation")
        /\ UNCHANGED <<users, conversations, messages, products, orders, webhooks>>

NextTop ==
    \/ \E d \in {[title |-> "t1"]} : AddProduct(d)
    \/ \E d \in TopRecommendationDrafts : AddRecommendation(d)
    \/ \E limit \in 0 .. MaxLimit : GetTopRecommendedProducts(limit)

SpecTop == InitStore /\ [][NextTop]_vars

(* ----------------------- recommendation analytics: claims -------------- *)
Referencing(pid) == {k \in DOMAIN recommendations : recommendations[k].productId = pid}

Accepted(pid) == {k \in Referencing(pid) : Get(recommendations[k], "accepted") = TRUE}

Recommended == {p \in DOMAIN products : Referencing(p) # {}}

\* C23: getTopRecommendedProducts(limit) returns at most limit entries, as many
\* as limit and the recommended products allow, in non-increasing order of
\* recommendation count; each entry's count is the number of recommendations
\* that reference its product, and its successRate times that count is the
\* number of the accepted ones
C23_TopRecommended ==
    call[1] = "getTopRecommendedProducts" =>
        /\ Len(ret) = Min({call[2], Cardinality(Recommended)})
        /\ \A i, j \in DOMAIN ret :
              i < j => ret[i].recommendations >= ret[j].recommendations
        /\ \A i, j \in DOMAIN ret : i # j => ret[i].product.id # ret[j].product.id
        /\ \A i \in DOMAIN ret :
              /\ ret[i].product.id \in Recommended
              /\ ret[i].product = products[ret[i].product.id]
              /\ ret[i].recommendations = Cardinality(Referencing(ret[i].product.id))
              /\ ret[i].successRate.num * ret[i].recommendations
                    = Cardinality(Accepted(ret[i].product.id)) * ret[i].successRate.den
              /\ \A p \in Recommended :
                    (\A j \in DOMAIN ret : ret[j].product.id # p)
                        => Cardinality(Referencing(p)) <= ret[i].recommendations

\* limit 1 over two products: the one recommended 3 times with 1 accepted is
\* returned, though the one recommended once was recommended first
C23_Witness ==
    /\ call = <<"getTopRecommendedProducts", 1>>
    /\ Cardinality(Recommended) = 2
    /\ Len(ret) = 1
    /\ ret[1].recommendations = 3
    /\ ret[1].successRate = [num |-> 1, den |-> 3]
    /\ recommendations[Min(DOMAIN recommendations)].productId # ret[1].product.id

(* ------------------------ the updateX operations ----------------------- *)
\* Partial<X> patches: a field of the record, or its id
ConversationPatches == {[status |-> "completed"], [id |-> 2]}

OrderPatches == {[status |-> "shipped"], [id |-> 2]}

RecommendationPatches == {[accepted |-> TRUE], [id |-> 2]}

IdPatches == {[title |-> "t2"], [id |-> 2]}

UpsertOrder(ords, id, updates, t) ==
    (id :> Spread(Spread(IF id \in DOMAIN ords THEN ords[id] ELSE Empty, updates),
                  [updatedAt |-> t])) @@ ords

\* updateOrder: { ...order, ...updates, updatedAt }, undefined when the key is not held
updateOrder(ords, id, updates, t) ==
    IF id \notin DOMAIN ords THEN ords
    ELSE (id :> Spread(Spread(ords[id], updates), [updatedAt |-> t])) @@ ords

\* updateRecommendation: { ...recommendation, ...updates }
updateRecommendation(recs, id, updates) ==
    IF id \notin DOMAIN recs THEN recs ELSE (id :> Spread(recs[id], updates)) @@ recs

\* what an updateX returns: the record now under the key, if the key was held
updated(before, after, id) == IF id \in DOMAIN before THEN <<after[id]>> ELSE <<>>

UpdateConversation(id, updates) ==
    /\ conversations' = updateConversation(conversations, id, updates, now)
    /\ ret' = updated(conversations, conversations', id)
    /\ call' = <<"updateConversation", id>>
    /\ UNCHANGED <<users, messages, products, orders, recommendations, webhooks,
                   currentId, now, issued>>
    /\ UNCHANGED <<dispVars, chatVars>>

UpdateOrder(id, updates) ==
    /\ orders' = updateOrder(orders, id, updates, now)
    /\ ret' = updated(orders, orders', id)
    /\ call' = <<"updateOrder", id>>
    /\ UNCHANGED <<users, conversations, messages, products, recommendations,
                   webhooks, currentId, now, issued>>
    /\ UNCHANGED <<dispVars, chatVars>>

UpdateRecommendation(id, updates) ==
    /\ recommendations' = updateRecommendation(recommendations, id, updates)
    /\ ret' = updated(recommendations, recommendations', id)
    /\ call' = <<"updateRecommendation", id>>
    /\ UNCHANGED <<users, conversations, messages, products, orders, webhooks,
                   currentId, now, issued>>
    /\ UNCHANGED <<dispVars, chatVars>>

NextUpdates ==
    \/ \E d \in {[sessionId |-> "s1", status |-> "active"]} : CreateConversation(d)
    \/ \E d \in {[title |-> "t1"]} : CreateAnyProduct(d)
    \/ \E d \in OrderDrafts : CreateOrder(d)
    \/ \E d \in RecommendationDrafts : CreateRecommendation(d)
    \/ \E d \in {[url |-> "http://t", secret |-> "k1", isActive |-> TRUE,
                    events |-> [isArray |-> TRUE, items |-> {"order.created"}]]} :
           CreateWebhook(d)
    \/ \E id \in 1 .. MaxId, u \in ConversationPatches : UpdateConversation(id, u)
    \/ \E id \in 1 .. MaxId, u \in IdPatches : UpdateProduct(id, u)
    \/ \E id \in 1 .. MaxId, u \in OrderPatches : UpdateOrder(id, u)
    \/ \E id \in 1 .. MaxId, u \in RecommendationPatches : UpdateRecommendation(id, u)
    \/ \E id \in 1 .. MaxId, u \in WebhookPatches : UpdateWebhook(id, u)
    \/ \E id \in 1 .. MaxId : DeleteWebhook(id)

SpecUpdates == InitStore /\ [][NextUpdates]_vars

(* ------------------------------ updateX: claims ------------------------ *)
Untouched ==
    UNCHANGED <<users, conversations, messages, products, orders, recommendations,
                webhooks, currentId>>

\* the map an updateX or deleteWebhook call works on
MapOf(name) ==
    CASE name = "updateConversation" -> conversations
      [] name = "updateProduct" -> products
      [] name = "updateOrder" -> orders
      [] name = "updateRecommendation" -> recommendations
      [] OTHER -> webhooks

UpdateCalls ==
    {"updateConversation", "updateProduct", "updateOrder", "updateRecommendation",
     "updateWebhook"}

\* C24: an updateX(id, patch) step for an id its map does not hold returns
\* undefined and changes no entity map and not the id counter, and a
\* deleteWebhook(id) step for an id not held returns false and changes none
C24_AbsentIdIsNotFound ==
    [][\A id \in 1 .. MaxId :
          /\ \A name \in UpdateCalls :
                (call' = <<name, id>> /\ id \notin DOMAIN MapOf(name))
                    => (ret' = <<>> /\ Untouched)
          /\ (call' = <<"deleteWebhook", id>> /\ id \notin DOMAIN webhooks)
                => (ret' = <<FALSE>> /\ Untouched)]_vars

\* updateOrder was called for an id of another kind while the store holds an
\* order, and returned undefined
C24_Witness ==
    /\ call[1] = "updateOrder"
    /\ call[2] \in DOMAIN conversations
    /\ orders # Empty
    /\ ret = <<>>

EntityMaps ==
    <<users, conversations, messages, products, orders, recommendations, webhooks>>

\* C30: every record of every entity map is stored under the key that is its
\* own id field
C30_KeyIsId ==
    \A m \in DOMAIN EntityMaps : \A k \in DOMAIN EntityMaps[m] :
        EntityMaps[m][k].id = k

(* -------------------- syncProducts, call by call in flight ------------- *)
(* syncProducts awaits getProductByShopifyId and then createProduct or     *)
(* updateProduct for each draft.  The awaited call runs when it is made;   *)
(* the caller goes on from the await in a later microtask, behind the      *)
(* calls that were suspended before it.                                    *)
SyncDrafts == {[shopifyId |-> s, title |-> t] : s \in Sids, t \in Titles}

SyncLists == UNION {[1 .. n -> SyncDrafts] : n \in 1 .. MaxList}

InFlight == {c \in 1 .. MaxRequests : reqs[c].pc \in {"found", "written"}}

\* the drafts the calls in flight have not written yet
Pending(c) ==
    IF c \notin InFlight THEN 0
    ELSE Len(reqs[c].drafts) - reqs[c].i + (IF reqs[c].pc = "found" THEN 1 ELSE 0)

\* const existing = await this.getProductByShopifyId(insertProduct.shopifyId!):
\* the record found when the call is made, or none
lookedUp(h, i) ==
    LET k == getProductByShopifyId(products, Get(h.drafts[i], "shopifyId"))
    IN  [h EXCEPT !.pc = "found", !.i = i,
                  !.existing = IF k = 0 THEN <<>> ELSE <<products[k]>>]

\* a caller calls syncProducts(drafts): the loop runs up to its first await
CallSync(c, drafts) ==
    /\ reqs[c].pc \in {"none", "done"}
    /\ currentId + Pending(1) + Pending(2) + Len(drafts) <= MaxId + 1
    /\ reqs' = [reqs EXCEPT ![c] =
                   lookedUp([pc |-> "found", route |-> "sync", drafts |-> drafts,
                             i |-> 1, existing |-> <<>>, out |-> <<>>], 1)]
    /\ microtasks' = Append(microtasks, c)
    /\ UNCHANGED <<storeVars, dispVars, sent>>

\* from the first await of a pass: updateProduct(existing.id, draft) or
\* createProduct(draft) is called, and awaited
Write(c) ==
    LET h == reqs[c]
        draft == h.drafts[h.i]
        r == IF h.existing # <<>>
             THEN updateProduct(ProductStore, h.existing[1].id, draft, now)
             ELSE createProduct(ProductStore, draft, now)
    IN  /\ products' = r.products
        /\ currentId' = r.currentId
        /\ issued' = r.issued
        /\ reqs' = [reqs EXCEPT ![c] = [h EXCEPT !.pc = "written",
                                                 !.out = h.out \o r.out]]
        /\ microtasks' = Append(Tail(microtasks), c)
        /\ UNCHANGED <<users, conversations, messages, orders, recommendations,
                       webhooks, now, call, ret>>
        /\ UNCHANGED <<dispVars, sent>>

\* from the second await: the next pass up to its first await, or return products
Loop(c) ==
    LET h == reqs[c]
    IN  IF h.i < Len(h.drafts)
        THEN /\ reqs' = [reqs EXCEPT ![c] = lookedUp(h, h.i + 1)]
             /\ microtasks' = Append(Tail(microtasks), c)
             /\ UNCHANGED <<storeVars, dispVars, sent>>
        ELSE /\ reqs' = [reqs EXCEPT ![c] = [h EXCEPT !.pc = "done"]]
             /\ microtasks' = Tail(microtasks)
             /\ ret' = h.out
             /\ call' = <<"syncProducts", h.drafts>>
             /\ UNCHANGED <<users, conversations, messages, products, orders,
                            recommendations, webhooks, currentId, now, issued>>
             /\ UNCHANGED <<dispVars, sent>>

ResumeSync ==
    /\ microtasks # <<>>
    /\ LET c == Head(microtasks)
       IN  IF reqs[c].pc = "found" THEN Write(c) ELSE Loop(c)

NextSync ==
    \/ \E c \in 1 .. MaxRequests, drafts \in SyncLists : CallSync(c, drafts)
    \/ ResumeSync

SpecSync == InitStore /\ [][NextSync]_vars

(* --------------------------- syncProducts: claims ---------------------- *)
Carrying(sid) == {k \in DOMAIN products : Get(products[k], "shopifyId") = sid}

\* C25: when no syncProducts call is in flight, the store holds exactly one
\* product for each external id of the lists of the calls that returned
C25_OnePerExternalId ==
    InFlight = {} =>
        \A c \in 1 .. MaxRequests :
            reqs[c].pc = "done" =>
                \A i \in DOMAIN reqs[c].drafts :
                    Cardinality(Carrying(reqs[c].drafts[i].shopifyId)) = 1

(* ------------------------- chat dispatches: claims --------------------- *)
\* the handlers that have handed event to the dispatcher
Triggered(event) ==
    {r \in Received : \E i \in DOMAIN reqs[r].triggered : reqs[r].triggered[i] = event}

\* handler r hands event to the dispatcher in this step
Triggers(r, event) ==
    /\ Len(reqs'[r].triggered) = Len(reqs[r].triggered) + 1
    /\ reqs'[r].triggered[Len(reqs'[r].triggered)] = event

\* C26: at most one handler of the message route dispatches
\* conversation.started for a session id, and no handler twice; a handler whose
\* lookup found no conversation creates one and goes on to the dispatch, one
\* whose lookup found a conversation creates none and goes past the dispatch;
\* only a handler that has just created its conversation dispatches
C26_StartedOncePerSession ==
    /\ [](\A r1, r2 \in Triggered("conversation.started") :
             reqs[r1].sessionId = reqs[r2].sessionId => r1 = r2)
    /\ [](\A r \in Received :
             Cardinality({i \in DOMAIN reqs[r].triggered :
                             reqs[r].triggered[i] = "conversation.started"}) <= 1)
    /\ [][\A r \in 1 .. MaxRequests :
            /\ (reqs[r].route = "message" /\ reqs[r].pc = "lookup"
                    /\ reqs'[r].pc # "lookup")
                  => IF reqs[r].conversation = <<>>
                     THEN /\ reqs'[r].pc = "hooks"
                          /\ reqs'[r].conversation[1].id \notin DOMAIN conversations
                          /\ conversations'[reqs'[r].conversation[1].id]
                                = reqs'[r].conversation[1]
                     ELSE /\ reqs'[r].pc = "context"
                          /\ conversations' = conversations
            /\ (reqs[r].pc = "hooks" /\ reqs'[r].pc # "hooks")
                  => reqs'[r].pc = "notify"
            /\ (reqs[r].pc = "notify" /\ reqs'[r].pc # "notify")
                  => Triggers(r, "conversation.started")
            /\ Triggers(r, "conversation.started")
                  => reqs[r].route = "message" /\ reqs[r].pc = "notify"
            /\ (reqs[r].pc # "notify" /\ reqs'[r].pc = "notify")
                  => reqs[r].pc = "hooks"
            /\ (reqs[r].pc # "hooks" /\ reqs'[r].pc = "hooks")
                  => reqs[r].pc = "lookup" /\ reqs[r].conversation = <<>>]_vars

(* ---------------- the order route and the message route ---------------- *)
\* a subscription to the events the two routes dispatch
OrderingWebhookDrafts ==
    {[url |-> "http://t", secret |-> "k1", isActive |-> TRUE,
      events |-> [isArray |-> TRUE,
                  items |-> {"order.created", "conversation.escalated"}]]}

OrderingRequests == {[route |-> "message", body |-> [message |-> "hi", sessionId |-> "s1"]]}

\* the first handler of the microtask queue runs to its next await
RunHandler ==
    /\ microtasks # <<>>
    /\ IF reqs[Head(microtasks)].route \in {"orders", "test"} THEN RunApi
       ELSE RunMicrotask

NextOrdering ==
    \/ \E draft \in OrderingWebhookDrafts : Subscribe(draft)
    \/ \E req \in OrderingRequests : Receive(<<req>>)
    \/ \E body \in OrderBodies : PostOrder(body)
    \/ RunHandler
    \/ \E r \in 1 .. MaxRequests : Notified(r)
    \/ \E r \in 1 .. MaxRequests, answer \in AiAnswers : Answered(r, answer)
    \/ \E d \in 1 .. MaxDispatch, i \in 1 .. MaxWebhooks, answer \in Answers :
           Deliver(d, i, answer)

SpecOrdering == InitStore /\ [][NextOrdering]_vars

(* -------------------- mutation before dispatch: claims ----------------- *)
\* C27: the step that issues the delivery attempts of an order.created dispatch
\* starts from a store that holds the order the attempts name, as the request
\* created it; a handler dispatches conversation.escalated only from the point
\* it reaches after its updateConversation, which it reaches only when the AI
\* asked for escalation, and on reaching it the step has written the status of
\* the handler's conversation as escalated
C27_MutationBeforeDispatch ==
    [][/\ \A d \in 1 .. MaxDispatch :
            (disp[d].pc = "idle" /\ disp'[d].pc # "idle"
                /\ disp'[d].event = "order.created")
                => LET id == disp'[d].payload.data.orderId
                   IN  /\ id \in DOMAIN orders
                       /\ \E r \in Handled("orders") : reqs[r].order = <<orders[id]>>
                       /\ \A i \in DOMAIN att'[d] : \A n \in DOMAIN att'[d][i].requests :
                             att'[d][i].requests[n].body[2].data.orderId = id
       /\ \A r \in 1 .. MaxRequests :
            /\ Triggers(r, "conversation.escalated") => reqs[r].pc = "escalate"
            /\ (reqs[r].pc # "escalate" /\ reqs'[r].pc = "escalate")
                  => reqs[r].pc = "updated" /\ reqs[r].ai[1].shouldEscalate
            /\ (reqs[r].pc # "updated" /\ reqs'[r].pc = "updated")
                  => /\ call' = <<"updateConversation">>
                     /\ reqs[r].ai[1].shouldEscalate
                            => conversations'[reqs[r].conversation[1].id].status
                                  = "escalated"]_vars

\* an escalated conversation whose handler has dispatched conversation.escalated
\* and waits for the delivery, after an order request dispatched order.created
C27_Witness ==
    /\ \E r \in Handled("message") :
          /\ reqs[r].pc = "escalating"
          /\ r \in Triggered("conversation.escalated")
          /\ conversations[reqs[r].conversation[1].id].status = "escalated"
    /\ \E r \in Handled("orders") :
          /\ reqs[r].pc = "done"
          /\ Len(att[reqs[r].fanout]) = 1
          /\ reqs[r].order[1].id \in DOMAIN orders

(* ------------------- test delivery and deletion: claims ---------------- *)
\* C28: a step by which a test handler goes on from the end of its delivery,
\* for a subscription the store no longer holds, changes no entity map and not
\* the id counter, and no step brings back a subscription that was removed
C28_TestDoesNotRecreate ==
    [][/\ \A r \in 1 .. MaxRequests :
             (/\ reqs[r].route = "test"
              /\ reqs[r].pc \in {"tested", "stamped"}
              /\ reqs'[r].pc # reqs[r].pc
              /\ reqs[r].request[1].id \notin DOMAIN webhooks)
                 => Untouched
       /\ \A id \in Removed : id \notin DOMAIN webhooks']_vars

\* a test found its subscription, the subscription was removed, the delivery
\* was then answered 2xx, and the test has answered success: the subscription
\* is still absent
C28_Witness ==
    \E r \in Handled("test") :
        /\ reqs[r].pc = "done"
        /\ reqs[r].hooks # <<>>
        /\ reqs[r].request[1].id \in Removed
        /\ att[reqs[r].fanout][1].status = "DELIVERED"
        /\ sent = <<response("POST /api/webhooks/:id/test", 200, <<[success |-> TRUE]>>)>>

(* --------------------------- sync frame: claims ------------------------ *)
\* the external ids the drafts of a list carry
ExternalIds(drafts) ==
    {drafts[i].shopifyId : i \in {j \in DOMAIN drafts : "shopifyId" \in DOMAIN drafts[j]}}

\* C29: a syncProducts(list) step leaves as it was every product that has no
\* external id, and every product whose external id no draft of the list carries
C29_SyncFrame ==
    [][IsSyncStep =>
        \A k \in DOMAIN products :
            ("shopifyId" \notin DOMAIN products[k]
                \/ products[k].shopifyId \notin ExternalIds(call'[2]))
                => (k \in DOMAIN products' /\ products'[k] = products[k])]_vars
====
